---- MODULE Spec2Model ----
(***************************************************************************)
(* View-layer handlers of the 1327 document management application:        *)
(*   _1327/documents/views.py  revert and the attachment endpoints         *)
(*   _1327/minutes/views.py    the minutes document screens                *)
(* Every handler runs to completion within its request; the persisted      *)
(* state is the database (documents, their stored versions, attachments    *)
(* and object permissions).  `response` records the last request served    *)
(* and the answer it got.                                                  *)
(***************************************************************************)
EXTENDS Integers, Sequences, FiniteSets, TLC

VARIABLES
    perms,        \* perms[user][document]: object permissions of the user
    attachments,  \* Attachment table: pk -> row
    next_pk,      \* next primary key of the Attachment table
    documents,    \* Document rows by url_title: columns and relations
    versions,     \* stored versions, versions[pk] the one of primary key pk
    revert_call,  \* the revert request being served, if one is
    response      \* the last request and the response it was given

vars == <<perms, attachments, next_pk, documents, versions, revert_call, response>>

attachment_vars == <<attachments, next_pk>>
document_vars == <<documents, versions, revert_call>>

----------------------------------------------------------------------------
(* Bounds and input domains *)

\* Rows the Attachment table may ever have been given (create is capped).
MaxAttachments == 2
\* Rows of the table the orderings are posted against, and items posted.
MaxOrdered == 3
MaxPosted == 3
\* Versions stored over all documents.
MaxVersions == 4

Users == {"alice", "bob"}
Docs == {"d1", "d2"}
PermNames == {"view", "change"}
Methods == {"GET", "POST"}

\* A display name is a tuple of one-character strings.
photo_PNG == <<"p", "h", "o", "t", "o", ".", "P", "N", "G">>
notes_txt == <<"n", "o", "t", "e", "s", ".", "t", "x", "t">>
png_bare == <<"p", "n", "g">>
a_png_txt == <<"a", ".", "p", "n", "g", ".", "t", "x", "t">>
b_tar_Gif == <<"b", ".", "t", "a", "r", ".", "G", "i", "f">>
jpg_dot == <<"j", "p", "g", ".">>
xpng == <<"x", "p", "n", "g">>

\* Display names uploaded in the listing specification.
ListingNames == {photo_PNG, notes_txt, png_bare, a_png_txt, b_tar_Gif, jpg_dot, xpng}

\* Values a client posts: an index arrives as text, the flag as JSON text.
IndexTexts == {"0", "x"}
FlagTexts == {"true", "false", "null", "tru"}
EmbedValues == {"absent", "", "1"}

----------------------------------------------------------------------------
(* Text helpers: str.lower, str.split, int(), json.loads *)

UpperCase == <<"A", "B", "C", "D", "E", "F", "G", "H", "I", "J", "K", "L", "M",
               "N", "O", "P", "Q", "R", "S", "T", "U", "V", "W", "X", "Y", "Z">>
LowerCase == <<"a", "b", "c", "d", "e", "f", "g", "h", "i", "j", "k", "l", "m",
               "n", "o", "p", "q", "r", "s", "t", "u", "v", "w", "x", "y", "z">>

lower_char(c) ==
    IF \E k \in DOMAIN UpperCase : UpperCase[k] = c
    THEN LowerCase[CHOOSE k \in DOMAIN UpperCase : UpperCase[k] = c]
    ELSE c

lower(s) == [i \in 1..Len(s) |-> lower_char(s[i])]

RECURSIVE split(_, _)
split(s, sep) ==
    IF \A i \in 1..Len(s) : s[i] # sep
    THEN <<s>>
    ELSE LET i == CHOOSE i \in 1..Len(s) :
                      s[i] = sep /\ \A j \in 1..(i - 1) : s[j] # sep
         IN <<SubSeq(s, 1, i - 1)>> \o split(SubSeq(s, i + 1, Len(s)), sep)

\* int(text) on the texts a request carries here: a decimal digit, or a
\* text int() raises ValueError for.
DigitTexts == <<"0", "1", "2", "3", "4", "5", "6", "7", "8", "9">>

IsInt(text) == \E k \in DOMAIN DigitTexts : DigitTexts[k] = text

int(text) ==
    IF IsInt(text)
    THEN (CHOOSE k \in DOMAIN DigitTexts : DigitTexts[k] = text) - 1
    ELSE "ValueError"

\* json.loads(text) on the texts of FlagTexts.
json_loads(text) ==
    CASE text = "true" -> "True"
      [] text = "false" -> "False"
      [] text = "null" -> "None"
      [] OTHER -> "ValueError"

----------------------------------------------------------------------------
(* Collaborators *)

\* settings.SUPPORTED_IMAGE_TYPES
SUPPORTED_IMAGE_TYPES ==
    {<<"j", "p", "g">>, <<"j", "p", "e", "g">>, <<"p", "n", "g">>, <<"g", "i", "f">>}

\* Document.can_be_changed_by(user)
can_be_changed_by(document, user) == "change" \in perms[user][document]

\* user.has_perm(permission, document)
has_perm(user, permission, document) == permission \in perms[user][document]

Respond(handler, user, status, body) ==
    response' = [handler |-> handler, user |-> user, status |-> status, body |-> body]

Pks == DOMAIN attachments

\* document.attachments.all()
attachments_of(document) == {pk \in Pks : attachments[pk].document = document}

\* handle_attachment(request, document): the upload form saves a new row when
\* it is valid (a file was sent); the new row is appended to the document's.
handle_attachment(document, upload) ==
    IF upload = <<>>
    THEN [success |-> FALSE, attachment |-> 0, table |-> attachments]
    ELSE [success |-> TRUE,
          attachment |-> next_pk,
          table |-> [pk \in Pks \cup {next_pk} |->
                        IF pk = next_pk
                        THEN [document |-> document,
                              displayname |-> upload,
                              index |-> Cardinality(attachments_of(document)) + 1,
                              no_direct_download |-> FALSE]
                        ELSE attachments[pk]]]

----------------------------------------------------------------------------
(* documents/views.py: the attachment endpoints *)

create_attachment(user, is_ajax, method, document, upload) ==
    IF ~is_ajax \/ ~(method = "POST")
    THEN /\ Respond("create_attachment", user, "NotFound", <<>>)
         /\ UNCHANGED <<perms, attachments, next_pk, document_vars>>
    ELSE IF ~can_be_changed_by(document, user)
    THEN /\ Respond("create_attachment", user, "Forbidden", <<>>)
         /\ UNCHANGED <<perms, attachments, next_pk, document_vars>>
    ELSE LET r == handle_attachment(document, upload) IN
         IF r.success
         THEN /\ attachments' = r.table
              /\ next_pk' = next_pk + 1
              /\ Respond("create_attachment", user, "OK", <<r.attachment>>)
              /\ UNCHANGED <<perms, document_vars>>
         ELSE /\ Respond("create_attachment", user, "BadRequest", <<>>)
              /\ UNCHANGED <<perms, attachments, next_pk, document_vars>>

delete_attachment(user, is_ajax, method, id) ==
    IF is_ajax /\ method = "POST"
    THEN IF id \notin Pks
         THEN /\ Respond("delete_attachment", user, "ServerError", <<>>)
              /\ UNCHANGED <<perms, attachments, next_pk, document_vars>>
         ELSE IF ~can_be_changed_by(attachments[id].document, user)
         THEN /\ Respond("delete_attachment", user, "Forbidden", <<>>)
              /\ UNCHANGED <<perms, attachments, next_pk, document_vars>>
         ELSE /\ attachments' = [pk \in Pks \ {id} |-> attachments[pk]]
              /\ Respond("delete_attachment", user, "OK", <<>>)
              /\ UNCHANGED <<perms, next_pk, document_vars>>
    ELSE /\ Respond("delete_attachment", user, "NotFound", <<>>)
         /\ UNCHANGED <<perms, attachments, next_pk, document_vars>>

\* Mutant: the download asks for change permission.
download_attachment_for_editors(user, method, attachment_id, embed) ==
    /\ UNCHANGED <<perms, attachments, next_pk, document_vars>>
    /\ IF ~(method = "GET")
       THEN Respond("download_attachment", user, "BadRequest", <<>>)
       ELSE IF attachment_id \notin Pks
       THEN Respond("download_attachment", user, "NotFound", <<>>)
       ELSE IF ~can_be_changed_by(attachments[attachment_id].document, user)
       THEN Respond("download_attachment", user, "Forbidden", <<>>)
       ELSE LET is_attachment == embed \in {"absent", ""} IN
            Respond("download_attachment", user, "OK",
                    <<attachment_id, is_attachment,
                      attachments[attachment_id].displayname>>)

download_attachment(user, method, attachment_id, embed) ==
    /\ UNCHANGED <<perms, attachments, next_pk, document_vars>>
    /\ IF ~(method = "GET")
       THEN Respond("download_attachment", user, "BadRequest", <<>>)
       ELSE IF attachment_id \notin Pks
       THEN Respond("download_attachment", user, "NotFound", <<>>)
       ELSE IF ~has_perm(user, "view", attachments[attachment_id].document)
       THEN Respond("download_attachment", user, "Forbidden", <<>>)
       ELSE LET is_attachment == embed \in {"absent", ""} IN
            Respond("download_attachment", user, "OK",
                    <<attachment_id, is_attachment,
                      attachments[attachment_id].displayname>>)

\* Mutant: the batch is undone when an entry is denied.
RECURSIVE order_loop_atomic(_, _, _, _)
order_loop_atomic(table, data, i, user) ==
    IF i > Len(data)
    THEN [table |-> table, saved |-> i - 1, status |-> "OK"]
    ELSE LET pk == data[i][1]
             index == data[i][2]
         IN IF pk \notin DOMAIN table
            THEN [table |-> table, saved |-> i - 1, status |-> "NotFound"]
            ELSE IF ~can_be_changed_by(table[pk].document, user)
            THEN [table |-> attachments, saved |-> i - 1, status |-> "Forbidden"]
            ELSE IF ~IsInt(index)
            THEN [table |-> table, saved |-> i - 1, status |-> "ServerError"]
            ELSE order_loop_atomic([table EXCEPT ![pk].index = int(index)],
                                   data, i + 1, user)

\* The loop of update_attachment_order over the posted items, in the order
\* the mapping yields them: the table so far, the entries saved, the status.
RECURSIVE order_loop(_, _, _, _)
order_loop(table, data, i, user) ==
    IF i > Len(data)
    THEN [table |-> table, saved |-> i - 1, status |-> "OK"]
    ELSE LET pk == data[i][1]
             index == data[i][2]
         IN IF pk \notin DOMAIN table
            THEN [table |-> table, saved |-> i - 1, status |-> "NotFound"]
            ELSE IF ~can_be_changed_by(table[pk].document, user)
            THEN [table |-> table, saved |-> i - 1, status |-> "Forbidden"]
            ELSE IF ~IsInt(index)
            THEN [table |-> table, saved |-> i - 1, status |-> "ServerError"]
            ELSE order_loop([table EXCEPT ![pk].index = int(index)], data, i + 1, user)

\* request.POST holds the posted form of a POST request and is empty otherwise.
request_POST(method, data) == IF method = "POST" THEN data ELSE <<>>

update_attachment_order(user, is_ajax, method, posted) ==
    LET data == request_POST(method, posted) IN
    IF ~is_ajax
    THEN /\ Respond("update_attachment_order", user, "NotFound", <<0, Len(posted)>>)
         /\ UNCHANGED <<perms, attachments, next_pk, document_vars>>
    ELSE LET r == order_loop(attachments, data, 1, user) IN
         /\ attachments' = r.table
         /\ Respond("update_attachment_order", user, r.status, <<r.saved, Len(posted)>>)
         /\ UNCHANGED <<perms, next_pk, document_vars>>

\* Mutant: the display name is not lowered.
file_type_case_sensitive(displayname) ==
    LET parts == split(displayname, ".") IN parts[Len(parts)]

file_type(displayname) ==
    LET parts == split(lower(displayname), ".") IN parts[Len(parts)]

\* json.dumps(data): the listing as the set of its (id, display name) items.
get_attachments(user, is_ajax, document_id) ==
    /\ UNCHANGED <<perms, attachments, next_pk, document_vars>>
    /\ IF ~is_ajax
       THEN Respond("get_attachments", user, "NotFound", <<>>)
       ELSE IF ~can_be_changed_by(document_id, user)
       THEN Respond("get_attachments", user, "Forbidden", <<>>)
       ELSE Respond("get_attachments", user, "OK",
                    <<document_id,
                      {<<pk, attachments[pk].displayname>> :
                          pk \in {a \in attachments_of(document_id) :
                                     file_type(attachments[a].displayname)
                                         \in SUPPORTED_IMAGE_TYPES}}>>)

\* Mutant: the flag is saved without the permission check.
change_attachment_no_direct_download_unchecked(user, is_ajax, method, attachment_id, flag) ==
    LET no_direct_download == json_loads(flag) IN
    IF method # "POST" \/ ~is_ajax
    THEN /\ Respond("change_attachment_no_direct_download", user, "NotFound", <<>>)
         /\ UNCHANGED <<perms, attachments, next_pk, document_vars>>
    ELSE IF no_direct_download \in {"ValueError", "None"} \/ attachment_id \notin Pks
    THEN /\ Respond("change_attachment_no_direct_download", user, "ServerError", <<>>)
         /\ UNCHANGED <<perms, attachments, next_pk, document_vars>>
    ELSE /\ attachments' = [attachments EXCEPT
                ![attachment_id].no_direct_download = (no_direct_download = "True")]
         /\ Respond("change_attachment_no_direct_download", user, "OK", <<>>)
         /\ UNCHANGED <<perms, next_pk, document_vars>>

change_attachment_no_direct_download(user, is_ajax, method, attachment_id, flag) ==
    LET no_direct_download == json_loads(flag) IN
    IF method # "POST" \/ ~is_ajax
    THEN /\ Respond("change_attachment_no_direct_download", user, "NotFound", <<>>)
         /\ UNCHANGED <<perms, attachments, next_pk, document_vars>>
    ELSE IF no_direct_download = "ValueError" \/ attachment_id \notin Pks
    THEN /\ Respond("change_attachment_no_direct_download", user, "ServerError", <<>>)
         /\ UNCHANGED <<perms, attachments, next_pk, document_vars>>
    ELSE IF ~can_be_changed_by(attachments[attachment_id].document, user)
    THEN /\ Respond("change_attachment_no_direct_download", user, "Forbidden", <<>>)
         /\ UNCHANGED <<perms, attachments, next_pk, document_vars>>
    ELSE IF no_direct_download = "None"
    THEN \* the column is NOT NULL: save() raises IntegrityError
         /\ Respond("change_attachment_no_direct_download", user, "ServerError", <<>>)
         /\ UNCHANGED <<perms, attachments, next_pk, document_vars>>
    ELSE /\ attachments' = [attachments EXCEPT
                ![attachment_id].no_direct_download = (no_direct_download = "True")]
         /\ Respond("change_attachment_no_direct_download", user, "OK", <<>>)
         /\ UNCHANGED <<perms, next_pk, document_vars>>

----------------------------------------------------------------------------
(* minutes/views.py: view *)

\* Mutant: the filter on the flag is left out.
direct_downloads_unfiltered(document) == attachments_of(document)

\* document.attachments.filter(no_direct_download=False)
direct_downloads(document) ==
    {pk \in attachments_of(document) : ~attachments[pk].no_direct_download}

\* .order_by('index'): every listing of the rows in which the index never
\* decreases (rows of equal index come in the order the database picks).
order_by_index(rows) ==
    {s \in [1..Cardinality(rows) -> rows] :
        /\ \A i, j \in DOMAIN s : i # j => s[i] # s[j]
        /\ \A i, j \in DOMAIN s :
              i < j => attachments[s[i]].index <= attachments[s[j]].index}

view(user, title, listing) ==
    /\ UNCHANGED <<perms, attachments, next_pk, document_vars>>
    /\ IF ~has_perm(user, "view", title)
       THEN Respond("view", user, "Forbidden", <<>>)
       ELSE /\ listing \in order_by_index(direct_downloads(title))
            /\ Respond("view", user, "OK", <<title, listing>>)

----------------------------------------------------------------------------
(* Documents and their stored versions *)

Texts == {"v1", "v2"}

\* Field names spelled out, for the test '"_ptr" in key'.
Spelling ==
    [id |-> <<"i", "d">>,
     polymorphic_ctype |-> <<"p", "o", "l", "y", "m", "o", "r", "p", "h", "i", "c",
                             "_", "c", "t", "y", "p", "e">>,
     document_ptr |-> <<"d", "o", "c", "u", "m", "e", "n", "t", "_", "p", "t", "r">>,
     text |-> <<"t", "e", "x", "t">>,
     author |-> <<"a", "u", "t", "h", "o", "r">>,
     participants |-> <<"p", "a", "r", "t", "i", "c", "i", "p", "a", "n", "t", "s">>]

\* sub in s, for texts
contains(s, sub) ==
    \E i \in 0..(Len(s) - Len(sub)) : SubSeq(s, i + 1, i + Len(sub)) = sub

\* The relation descriptors a document class carries as class attributes:
\* getattr(document_class, key).field
class_fields(document_class) ==
    [author |-> [many_to_many |-> FALSE, attname |-> "author_id"],
     participants |-> [many_to_many |-> TRUE, attname |-> "participants"]]

\* The tables a minutes document is stored in (multi-table inheritance) and
\* the columns and relations each holds.
Tables == {"Document", "MinutesDocument"}
stored_in(table) ==
    IF table = "Document" THEN {"text", "author_id"} ELSE {"participants"}

\* A function without the key / with a key set.
without(f, key) == [k \in DOMAIN f \ {key} |-> f[k]]
with(f, key, value) == [k \in DOMAIN f \cup {key} |-> IF k = key THEN value ELSE f[k]]

\* version.field_dict of a version taken of `row`
field_dict_of(row) ==
    [id |-> row.id,
     polymorphic_ctype |-> row.polymorphic_ctype,
     document_ptr |-> row.id,
     text |-> row.text,
     author |-> row.author_id,
     participants |-> row.participants]

\* The object a version deserializes to: its columns and relations.
stored_object(version) ==
    [text |-> version.field_dict["text"],
     author_id |-> version.field_dict["author"],
     participants |-> version.field_dict["participants"]]

\* revisions.create_revision(): the version saved when the block is left
new_version(row, user, comment) ==
    [object_id |-> row.id, field_dict |-> field_dict_of(row),
     user |-> user, comment |-> comment]

\* revisions.get_for_object(document): the primary keys, newest first
RECURSIVE newest_first(_)
newest_first(pks) ==
    IF pks = {} THEN <<>>
    ELSE LET top == CHOOSE p \in pks : \A q \in pks : q <= p
         IN <<top>> \o newest_first(pks \ {top})

get_for_object(document) ==
    newest_first({pk \in DOMAIN versions : versions[pk].object_id = document})

\* Lines 30-34: the first version whose pk equals int(version_id); pk 0
\* stands for None, `raised` for int() raising on the first comparison.
find_version(found, version_id) ==
    IF found = <<>> THEN [raised |-> FALSE, pk |-> 0]
    ELSE IF ~IsInt(version_id) THEN [raised |-> TRUE, pk |-> 0]
    ELSE IF \E i \in DOMAIN found : found[i] = int(version_id)
    THEN [raised |-> FALSE,
          pk |-> found[CHOOSE i \in DOMAIN found :
                          /\ found[i] = int(version_id)
                          /\ \A j \in 1..(i - 1) : found[j] # int(version_id)]]
    ELSE [raised |-> FALSE, pk |-> 0]

\* Lines 49-61: one pass of the loop over the keys of the field dict.
RECURSIVE split_fields(_, _, _, _, _)
split_fields(keys, fields, document_class, new_fields, many_to_many_fields) ==
    IF keys = {}
    THEN [new_fields |-> new_fields, many_to_many_fields |-> many_to_many_fields]
    ELSE LET key == CHOOSE k \in keys : TRUE
             rest == keys \ {key}
         IN IF contains(Spelling[key], <<"_", "p", "t", "r">>)
            THEN split_fields(rest, fields, document_class,
                              without(new_fields, key), many_to_many_fields)
            ELSE IF key \in DOMAIN class_fields(document_class)
            THEN LET field == class_fields(document_class)[key] IN
                 IF field.many_to_many
                 THEN split_fields(rest, fields, document_class,
                                   without(new_fields, key),
                                   with(many_to_many_fields, key, fields[key]))
                 ELSE split_fields(rest, fields, document_class,
                                   without(with(new_fields, field.attname, fields[key]), key),
                                   many_to_many_fields)
            ELSE split_fields(rest, fields, document_class,
                              new_fields, many_to_many_fields)

\* document_class(**new_fields) and save(): the columns given, the others at
\* their defaults; the type tag is the one of the class.
DefaultColumns == [id |-> "", text |-> "", author_id |-> "nobody"]

saved_row(old, document_class, new_fields) ==
    [id |-> IF "id" \in DOMAIN new_fields THEN new_fields["id"] ELSE DefaultColumns.id,
     polymorphic_ctype |-> document_class,
     text |-> IF "text" \in DOMAIN new_fields
              THEN new_fields["text"] ELSE DefaultColumns.text,
     author_id |-> IF "author_id" \in DOMAIN new_fields
                   THEN new_fields["author_id"] ELSE DefaultColumns.author_id,
     participants |-> old.participants]

\* The related manager's clear() and add(*values).
clear(related) == {}
add(related, values) == related \cup values

\* Mutant: the relation is added to without being cleared first.
restore_many_to_many_union(row, many_to_many_fields) ==
    IF "participants" \in DOMAIN many_to_many_fields
    THEN [row EXCEPT !.participants = add(@, many_to_many_fields["participants"])]
    ELSE row

\* Lines 67-69: clear(), then add(*values), for every many-to-many key.
restore_many_to_many(row, many_to_many_fields) ==
    IF "participants" \in DOMAIN many_to_many_fields
    THEN [row EXCEPT !.participants =
              add(clear(@), many_to_many_fields["participants"])]
    ELSE row

\* Lines 45-72: the reverted row of the document, from the version.
reverted_row(old, revert_version) ==
    LET fields0 == revert_version.field_dict
        document_class == fields0["polymorphic_ctype"]
        fields == without(fields0, "polymorphic_ctype")
        r == split_fields(DOMAIN fields, fields, document_class, fields, <<>>)
    IN restore_many_to_many(saved_row(old, document_class, r.new_fields),
                            r.many_to_many_fields)

----------------------------------------------------------------------------
(* documents/views.py: revert.  The plugin's Revision.revert() of line 41  *)
(* runs before the handler's transaction.atomic() block and restores the   *)
(* stored objects of the revision one after the other, each in a           *)
(* transaction of its own; a minutes document is stored as a Document row  *)
(* and a MinutesDocument row.  What is persisted after each such commit is *)
(* visible to every other request.                                         *)

Idle == <<>>

RevertResponds(user, status, body) ==
    /\ Respond("revert", user, status, body)
    /\ revert_call' = Idle
    /\ UNCHANGED <<perms, attachment_vars, documents, versions>>

\* Lines 20-38: the request up to the version found.
revert_request(user, is_ajax, method, version_id, document_url_title) ==
    /\ revert_call = Idle
    /\ IF ~is_ajax \/ method # "POST"
       THEN RevertResponds(user, "NotFound", <<>>)
       ELSE IF document_url_title \notin DOMAIN documents
       THEN RevertResponds(user, "NotFound", <<>>)
       ELSE IF ~has_perm(user, "change", document_url_title)
       THEN RevertResponds(user, "Forbidden", <<>>)
       ELSE LET revert_version ==
                    find_version(get_for_object(document_url_title), version_id)
            IN IF revert_version.raised
               THEN RevertResponds(user, "ServerError", <<"ValueError">>)
               ELSE IF revert_version.pk = 0
               THEN RevertResponds(user, "BadRequest", <<"Could not find document">>)
               ELSE /\ revert_call' = [user |-> user,
                                       document |-> document_url_title,
                                       version |-> revert_version.pk,
                                       left |-> Tables]
                    /\ Respond("revert", user, "pending",
                               <<document_url_title, revert_version.pk>>)
                    /\ UNCHANGED <<perms, attachment_vars, documents, versions>>

\* Line 41: Revision.revert(delete=False) restores one stored object.
revision_revert(table) ==
    /\ revert_call # Idle
    /\ table \in revert_call.left
    /\ LET d == revert_call.document
           stored == stored_object(versions[revert_call.version])
       IN documents' = [documents EXCEPT ![d] =
              [c \in DOMAIN documents[d] |->
                  IF c \in stored_in(table) THEN stored[c] ELSE documents[d][c]]]
    /\ revert_call' = [revert_call EXCEPT !.left = @ \ {table}]
    /\ UNCHANGED <<perms, attachment_vars, versions, response>>

\* Lines 42-43: the plugin gives up with RevertError.
revert_error ==
    /\ revert_call # Idle
    /\ revert_call.left # {}
    /\ Respond("revert", revert_call.user, "ServerError",
               <<"Could not revert the version">>)
    /\ revert_call' = Idle
    /\ UNCHANGED <<perms, attachment_vars, documents, versions>>

\* Mutant: the row is saved outside any revision, none is stored.
revert_commit_untracked ==
    /\ revert_call # Idle
    /\ revert_call.left = {}
    /\ LET d == revert_call.document
           row == reverted_row(documents[d], versions[revert_call.version])
       IN documents' = [documents EXCEPT ![d] = row]
    /\ Respond("revert", revert_call.user, "OK",
               <<revert_call.document, revert_call.version>>)
    /\ revert_call' = Idle
    /\ UNCHANGED <<perms, attachment_vars, versions>>

\* Lines 45-74: the row rebuilt from the version and saved, its relations
\* restored and the new revision stored, in one transaction.
revert_commit ==
    /\ revert_call # Idle
    /\ revert_call.left = {}
    /\ LET d == revert_call.document
           revert_version == versions[revert_call.version]
           row == reverted_row(documents[d], revert_version)
       IN /\ documents' = [documents EXCEPT ![d] = row]
          /\ versions' = Append(versions,
                 new_version(row, revert_call.user,
                             <<"reverted to revision">> \o revert_version.comment))
    /\ Respond("revert", revert_call.user, "OK",
               <<revert_call.document, revert_call.version>>)
    /\ revert_call' = Idle
    /\ UNCHANGED <<perms, attachment_vars>>

\* Lines 64-72 raising (the database refuses a statement): the transaction
\* is rolled back and the request ends in an error.
revert_rollback ==
    /\ revert_call # Idle
    /\ revert_call.left = {}
    /\ Respond("revert", revert_call.user, "ServerError", <<"rolled back">>)
    /\ revert_call' = Idle
    /\ UNCHANGED <<perms, attachment_vars, documents, versions>>

----------------------------------------------------------------------------
(* minutes/views.py: edit *)

\* handle_edit(request, document, formset): the valid form is saved within
\* a revision that carries the user and the comment given.
edit(user, title, text, participants, comment) ==
    IF ~has_perm(user, "change", title)
    THEN /\ Respond("edit", user, "Forbidden", <<>>)
         /\ UNCHANGED <<perms, attachment_vars, document_vars>>
    ELSE LET row == [documents[title] EXCEPT !.text = text,
                                              !.participants = participants]
         IN /\ documents' = [documents EXCEPT ![title] = row]
            /\ versions' = Append(versions, new_version(row, user, comment))
            /\ Respond("edit", user, "Found", <<title>>)
            /\ UNCHANGED <<perms, attachment_vars, revert_call>>

----------------------------------------------------------------------------
(* Requests on attachments *)

\* Permission profiles a user may hold over the documents.
Editor == [d \in Docs |-> {"view", "change"}]
EditorOfD1 == [d \in Docs |-> IF d = "d1" THEN {"view", "change"} ELSE {"view"}]
ChangeOnlyD2 == [d \in Docs |-> IF d = "d2" THEN {"change"} ELSE {}]
Nobody == [d \in Docs |-> {}]
Profiles == {Editor, EditorOfD1, ChangeOnlyD2, Nobody}
PermTables == [Users -> Profiles]
\* alice may change both documents, bob only d1.
TwoEditors == [u \in Users |-> IF u = "alice" THEN Editor ELSE EditorOfD1]

\* Posted orderings: a mapping, so no key twice; keys may name no row.
OrderData(pks, n) ==
    UNION {{s \in [1..k -> pks \X IndexTexts] :
               \A i, j \in 1..k : i # j => s[i][1] # s[j][1]} : k \in 0..n}

ChangePosts == OrderData(1..(MaxAttachments + 1), MaxAttachments)
OrderPosts == OrderData(1..(MaxOrdered + 1), MaxPosted)

CreateAttachment ==
    \E user \in Users, is_ajax \in BOOLEAN, method \in Methods,
       document \in Docs, upload \in {photo_PNG, <<>>} :
        /\ next_pk <= MaxAttachments
        /\ create_attachment(user, is_ajax, method, document, upload)

DeleteAttachment ==
    \E user \in Users, is_ajax \in BOOLEAN, method \in Methods,
       id \in 1..MaxAttachments :
        delete_attachment(user, is_ajax, method, id)

DownloadAttachment ==
    \E user \in Users, method \in Methods, id \in 1..MaxAttachments,
       embed \in EmbedValues :
        download_attachment(user, method, id, embed)

UpdateAttachmentOrder ==
    \E user \in Users, is_ajax \in BOOLEAN, method \in Methods,
       posted \in ChangePosts :
        update_attachment_order(user, is_ajax, method, posted)

ChangeAttachmentNoDirectDownload ==
    \E user \in Users, is_ajax \in BOOLEAN, method \in Methods,
       id \in 1..MaxAttachments, flag \in FlagTexts :
        change_attachment_no_direct_download(user, is_ajax, method, id, flag)

View ==
    \E user \in Users, title \in Docs :
        \E listing \in UNION {[1..k -> Pks] : k \in 0..Cardinality(Pks)} :
            view(user, title, listing)

NoRequest == [handler |-> "none", user |-> "none", status |-> "none", body |-> <<>>]

FirstRow(d) ==
    [id |-> d, polymorphic_ctype |-> "MinutesDocument", text |-> "v1",
     author_id |-> "alice", participants |-> {}]

\* Two minutes documents, each with the version stored when it was created.
InitDocuments ==
    /\ documents = [d \in Docs |-> FirstRow(d)]
    /\ versions = <<new_version(FirstRow("d1"), "alice", <<"created">>),
                    new_version(FirstRow("d2"), "alice", <<"created">>)>>
    /\ revert_call = Idle

\* The attachment endpoints, from an empty Attachment table.
Init ==
    /\ perms \in PermTables
    /\ attachments = <<>>
    /\ next_pk = 1
    /\ response = NoRequest
    /\ InitDocuments

Next ==
    \/ CreateAttachment
    \/ DeleteAttachment
    \/ DownloadAttachment
    \/ ChangeAttachmentNoDirectDownload
    \/ View

Spec == Init /\ [][Next]_vars

\* The requests that change the Attachment table.
NextChange ==
    \/ CreateAttachment
    \/ DeleteAttachment
    \/ UpdateAttachmentOrder
    \/ ChangeAttachmentNoDirectDownload

SpecChange == Init /\ [][NextChange]_vars

\* The image listing, over display names of every shape.
UploadNamed ==
    \E user \in Users, document \in Docs, upload \in ListingNames :
        /\ next_pk <= MaxAttachments
        /\ create_attachment(user, TRUE, "POST", document, upload)

GetAttachments ==
    \E user \in Users, is_ajax \in BOOLEAN, document \in Docs :
        get_attachments(user, is_ajax, document)

NextListing ==
    \/ UploadNamed
    \/ GetAttachments

SpecListing == Init /\ [][NextListing]_vars

\* Orderings posted against a table of MaxOrdered rows uploaded earlier.
OrderedTables ==
    {[pk \in 1..MaxOrdered |->
         [document |-> owner[pk], displayname |-> photo_PNG,
          index |-> pk, no_direct_download |-> FALSE]] :
        owner \in [1..MaxOrdered -> Docs]}

InitOrder ==
    /\ perms = TwoEditors
    /\ attachments \in OrderedTables
    /\ next_pk = MaxOrdered + 1
    /\ response = NoRequest
    /\ InitDocuments

\* A request on its way to update_attachment_order, the handler run on it,
\* and the response taken by the client.
PostOrder ==
    \E user \in Users, is_ajax \in BOOLEAN, method \in Methods,
       posted \in OrderPosts :
        /\ response = NoRequest
        /\ Respond("update_attachment_order", user, "pending",
                   <<is_ajax, method, posted>>)
        /\ UNCHANGED <<perms, attachment_vars, document_vars>>

ServeOrder ==
    /\ response.status = "pending"
    /\ update_attachment_order(response.user, response.body[1],
                               response.body[2], response.body[3])

ReturnOrder ==
    /\ response # NoRequest
    /\ response.status # "pending"
    /\ response' = NoRequest
    /\ UNCHANGED <<perms, attachment_vars, document_vars>>

NextOrder ==
    \/ PostOrder
    \/ ServeOrder
    \/ ReturnOrder

SpecOrder == InitOrder /\ [][NextOrder]_vars

----------------------------------------------------------------------------
(* Requests on documents: edits and reverts *)

VersionIdTexts == {"1", "2", "3", "4", "9", "x"}
UrlTitles == Docs \cup {"nope"}


InitRevert ==
    /\ perms = TwoEditors
    /\ attachments = <<>>
    /\ next_pk = 1
    /\ response = NoRequest
    /\ InitDocuments

Edit ==
    \E user \in Users, title \in Docs, text \in Texts,
       participants \in SUBSET Users :
        /\ Len(versions) < MaxVersions
        /\ edit(user, title, text, participants, <<"edited">>)

RevertRequest ==
    \E user \in Users, is_ajax \in BOOLEAN, method \in Methods,
       version_id \in VersionIdTexts, url_title \in UrlTitles :
        /\ Len(versions) < MaxVersions
        /\ revert_request(user, is_ajax, method, version_id, url_title)

RevisionRevert == \E table \in Tables : revision_revert(table)

NextRevert ==
    \/ Edit
    \/ RevertRequest
    \/ RevisionRevert
    \/ revert_error
    \/ revert_commit
    \/ revert_rollback

SpecRevert == InitRevert /\ [][NextRevert]_vars

----------------------------------------------------------------------------
(* Properties of revert *)

\* The version id text that denotes the primary key pk.
Denotes(text, pk) == pk + 1 \in DOMAIN DigitTexts /\ DigitTexts[pk + 1] = text

RevertAnswered(status) == response.handler = "revert" /\ response.status = status

\* C1: after a successful revert of document D to its stored version V, D's
\* persisted fields equal V's snapshot values (the inheritance pointer and
\* the type tag left aside) and D's many-to-many relation holds exactly the
\* snapshot's members.
C1_RevertRestoresSnapshot ==
    RevertAnswered("OK") =>
        LET D == response.body[1]
            V == versions[response.body[2]]
        IN /\ V.object_id = D
           /\ documents[D].id = V.field_dict["id"]
           /\ documents[D].text = V.field_dict["text"]
           /\ documents[D].author_id = V.field_dict["author"]
           /\ documents[D].participants = V.field_dict["participants"]

\* A revert answered OK to a version that a later version of the same
\* document differs from in text and has members the snapshot lacks.
C1_Witness ==
    /\ RevertAnswered("OK")
    /\ \E pk \in DOMAIN versions :
          LET V == versions[response.body[2]] IN
          /\ pk > response.body[2]
          /\ pk < Len(versions)
          /\ versions[pk].object_id = V.object_id
          /\ versions[pk].field_dict["text"] # V.field_dict["text"]
          /\ versions[pk].field_dict["participants"] \ V.field_dict["participants"] # {}

\* C2: a revert request (async POST by a user with change permission) whose
\* version id matches none of the stored versions of the addressed document
\* is answered BadRequest and leaves the document, its relations and its
\* stored versions as they were.
C2_UnknownVersionIsBadRequest ==
    [][\A user \in Users, version_id \in VersionIdTexts, url_title \in Docs :
          ( /\ revert_request(user, TRUE, "POST", version_id, url_title)
            /\ "change" \in perms[user][url_title]
            /\ \A pk \in DOMAIN versions :
                  versions[pk].object_id = url_title => ~Denotes(version_id, pk) )
          => /\ response'.status = "BadRequest"
             /\ documents' = documents
             /\ versions' = versions]_vars

\* C8: the reverted document and its relations become visible together or
\* not at all: no step of a revert being served changes what is persisted of
\* the document to anything but the snapshot, columns and relations both.
C8_RevertVisibleTogether ==
    [][(revert_call # Idle /\ revert_call' # revert_call /\ documents' # documents)
          => LET D == revert_call.document
                 V == versions[revert_call.version].field_dict
             IN /\ documents'[D].text = V["text"]
                /\ documents'[D].author_id = V["author"]
                /\ documents'[D].participants = V["participants"]]_vars

\* C9: every revert answered OK stores one new revision of the document,
\* attributed to the requesting user, with the comment naming the version
\* reverted to; a revert answered NotFound, Forbidden, BadRequest or
\* ServerError stores none; no step ever removes or alters a stored revision.
C9_RevertIsTracked ==
    [][/\ (response'.handler = "revert" /\ response'.status = "OK")
            => /\ revert_call # Idle
               /\ Len(versions') = Len(versions) + 1
               /\ LET new == versions'[Len(versions')]
                      V == versions[revert_call.version]
                  IN /\ new.object_id = revert_call.document
                     /\ new.user = revert_call.user
                     /\ new.user = response'.user
                     /\ new.comment = <<"reverted to revision">> \o V.comment
                     /\ new.field_dict = V.field_dict
       /\ (response'.handler = "revert"
              /\ response'.status \in {"NotFound", "Forbidden", "BadRequest", "ServerError"})
            => versions' = versions
       /\ Len(versions') >= Len(versions)
       /\ \A pk \in DOMAIN versions : versions'[pk] = versions[pk]]_vars

\* bob's revert to an edited version has been answered OK.
C9_Witness ==
    /\ RevertAnswered("OK")
    /\ response.user = "bob"
    /\ versions[Len(versions)].user = "bob"
    /\ versions[Len(versions)].comment = <<"reverted to revision", "edited">>

----------------------------------------------------------------------------
(* Properties of the attachment endpoints *)

OrderPending ==
    response.handler = "update_attachment_order" /\ response.status = "pending"

\* C3: in an asynchronous reorder request whose loop reaches an entry whose
\* owning document denies the requester change permission, the response is
\* Forbidden, every entry before the denied one has its new index persisted,
\* and the denied entry and every entry after it keep their index.
C3_PartialCommitOnDenial ==
    [][(OrderPending /\ response' # response
           /\ response.body[1] /\ response.body[2] = "POST")
          => LET user == response.user
                 data == response.body[3]
                 Denied(i) ==
                     /\ data[i][1] \in Pks
                     /\ "change" \notin perms[user][attachments[data[i][1]].document]
                 Passes(i) ==
                     /\ data[i][1] \in Pks
                     /\ "change" \in perms[user][attachments[data[i][1]].document]
                     /\ \E n \in 0..9 : Denotes(data[i][2], n)
             IN \A k \in DOMAIN data :
                   (Denied(k) /\ \A i \in 1..(k - 1) : Passes(i))
                   => /\ response'.status = "Forbidden"
                      /\ DOMAIN attachments' = Pks
                      /\ \A i \in 1..(k - 1) :
                            Denotes(data[i][2], attachments'[data[i][1]].index)
                      /\ \A i \in k..Len(data) :
                            data[i][1] \in Pks =>
                                attachments'[data[i][1]] = attachments[data[i][1]]]_vars

\* A reorder answered Forbidden after at least one entry was saved and with
\* at least one entry behind the denied one.
C3_Witness ==
    /\ response.handler = "update_attachment_order"
    /\ response.status = "Forbidden"
    /\ response.body[1] >= 1
    /\ response.body[2] >= response.body[1] + 2
    /\ \E pk \in Pks : attachments[pk].index = 0

\* C7: a reorder request that is not asynchronous or whose method is not POST
\* is answered NotFound, never with success, and changes no attachment.
C7_OrderOnlyAsyncPost ==
    [][(OrderPending /\ response' # response
           /\ (~response.body[1] \/ response.body[2] # "POST"))
          => /\ response'.status = "NotFound"
             /\ attachments' = attachments]_vars

\* C4: a GET of an existing attachment is served exactly when the requester
\* holds view permission on the owning document, whatever change permission
\* the requester holds; without view permission it is answered Forbidden and
\* nothing is served.
C4_DownloadNeedsViewOnly ==
    [][\A user \in Users, id \in Pks, embed \in EmbedValues :
          download_attachment(user, "GET", id, embed)
          => IF "view" \in perms[user][attachments[id].document]
             THEN /\ response'.status = "OK"
                  /\ response'.body[1] = id
                  /\ response'.body[3] = attachments[id].displayname
             ELSE /\ response'.status = "Forbidden"
                  /\ response'.body = <<>>]_vars

\* A download served to a user without change permission on the document.
C4_Witness ==
    /\ response.handler = "download_attachment"
    /\ response.status = "OK"
    /\ "change" \notin perms[response.user][attachments[response.body[1]].document]

\* C5: once a flag toggle answered OK has set no_direct_download, the
\* attachment still exists with the flag set; every view rendering lists
\* exactly the document's attachments whose flag is unset, by index, so none
\* with the flag set; and a GET of an attachment with the flag set by a user
\* with view permission on the document is served.
C5_HiddenFromViewStillDownloadable ==
    [][/\ \A user \in Users, id \in Pks :
             ( /\ change_attachment_no_direct_download(user, TRUE, "POST", id, "true")
               /\ response'.status = "OK" )
             => /\ id \in DOMAIN attachments'
                /\ attachments'[id].no_direct_download
                /\ attachments'[id].document = attachments[id].document
       /\ (response'.handler = "view" /\ response'.status = "OK")
             => LET title == response'.body[1]
                    listing == response'.body[2]
                IN /\ {listing[i] : i \in DOMAIN listing} =
                          {pk \in DOMAIN attachments' :
                              /\ attachments'[pk].document = title
                              /\ ~attachments'[pk].no_direct_download}
                   /\ \A i, j \in DOMAIN listing :
                          i < j => /\ listing[i] # listing[j]
                                   /\ attachments'[listing[i]].index
                                          <= attachments'[listing[j]].index
       /\ \A user \in Users, id \in Pks, embed \in EmbedValues :
             ( /\ download_attachment(user, "GET", id, embed)
               /\ attachments[id].no_direct_download
               /\ "view" \in perms[user][attachments[id].document] )
             => /\ response'.status = "OK"
                /\ response'.body[1] = id]_vars

\* A view rendering that lists one attachment of the document and omits
\* another, whose flag is set.
C5_Witness ==
    /\ response.handler = "view"
    /\ response.status = "OK"
    /\ response.body[2] # <<>>
    /\ \E pk \in Pks :
          /\ attachments[pk].document = response.body[1]
          /\ attachments[pk].no_direct_download

\* The same letter, whatever the case.
SameLetter(a, b) ==
    \/ a = b
    \/ \E k \in DOMAIN UpperCase : {a, b} = {UpperCase[k], LowerCase[k]}

\* The display name ends in an allowed type that is the whole name or
\* follows a dot.
HasImageExtension(name) ==
    \E type \in SUPPORTED_IMAGE_TYPES :
        /\ Len(name) >= Len(type)
        /\ \A i \in 1..Len(type) : SameLetter(name[Len(name) - Len(type) + i], type[i])
        /\ Len(name) > Len(type) => name[Len(name) - Len(type)] = "."

\* C6: the image listing answered OK goes to a requester with change
\* permission and maps attachment id to display name for exactly the
\* document's attachments whose last dot-separated segment is, whatever its
\* case, an allowed image type: photo.PNG is listed, notes.txt is not.
C6_ListingIsImagesOnly ==
    (response.handler = "get_attachments" /\ response.status = "OK") =>
        LET document == response.body[1]
            listing == response.body[2]
        IN /\ "change" \in perms[response.user][document]
           /\ listing = {<<pk, attachments[pk].displayname>> :
                            pk \in {a \in Pks :
                                       /\ attachments[a].document = document
                                       /\ HasImageExtension(attachments[a].displayname)}}
           /\ \A pk \in Pks : attachments[pk].document = document =>
                 /\ attachments[pk].displayname = photo_PNG => <<pk, photo_PNG>> \in listing
                 /\ attachments[pk].displayname = notes_txt => <<pk, notes_txt>> \notin listing

\* A listing that holds photo.PNG and leaves another attachment out.
C6_Witness ==
    /\ response.handler = "get_attachments"
    /\ response.status = "OK"
    /\ \E pk \in Pks : <<pk, photo_PNG>> \in response.body[2]
    /\ \E pk \in Pks :
          /\ attachments[pk].document = response.body[1]
          /\ <<pk, attachments[pk].displayname>> \notin response.body[2]

\* C10: whenever a row of the Attachment table is created, deleted, given
\* another index or another flag, the requester of that request holds change
\* permission on the row's document; a create, delete or toggle answered
\* Forbidden changes no row.
C10_ChangesNeedChangePermission ==
    [][/\ \A pk \in DOMAIN attachments \cup DOMAIN attachments' :
             ( \/ pk \notin DOMAIN attachments
               \/ pk \notin DOMAIN attachments'
               \/ attachments'[pk] # attachments[pk] )
             => LET document == IF pk \in DOMAIN attachments
                                THEN attachments[pk].document
                                ELSE attachments'[pk].document
                IN /\ response'.user \in Users
                   /\ "change" \in perms[response'.user][document]
       /\ ( /\ response'.status = "Forbidden"
            /\ response'.handler \in {"create_attachment", "delete_attachment",
                                      "change_attachment_no_direct_download"} )
             => attachments' = attachments]_vars

\* A delete answered Forbidden while the table holds a row that was
\* re-indexed and a row whose flag was set.
C10_Witness ==
    /\ response.handler = "delete_attachment"
    /\ response.status = "Forbidden"
    /\ \E pk \in Pks : attachments[pk].index = 0
    /\ \E pk \in Pks : attachments[pk].no_direct_download

====
